---- MODULE Spec2Model ----
(***************************************************************************)
(* A model of scrabbl-ai.cpp: the word trie, the cross-check and minimum   *)
(* length precomputation, the anchored search extend_right, the scorer     *)
(* calc_across_pts, the transposition used for down moves, and the         *)
(* interactive loop run_scrabble that edits the board and the rack and     *)
(* asks for the best move.                                                 *)
(*                                                                         *)
(* Characters are one-character strings; "." is the empty square, an       *)
(* uppercase letter a regular tile, a lowercase letter a blank tile.       *)
(* Words are sequences of characters.                                      *)
(***************************************************************************)
EXTENDS Integers, Sequences, FiniteSets, TLC

\* ------------------------------------------------------------------------
\* Program constants (#define lines of the source)
\* ------------------------------------------------------------------------
NUM_BOARD_ROWS == 15
NUM_BOARD_COLS == 15
NUM_RACK_TILES == 7

\* ------------------------------------------------------------------------
\* Characters: isupper, toupper, tolower and  letter - 'A'
\* ------------------------------------------------------------------------
UpperChars ==
  << "A","B","C","D","E","F","G","H","I","J","K","L","M",
     "N","O","P","Q","R","S","T","U","V","W","X","Y","Z" >>

LowerChars ==
  << "a","b","c","d","e","f","g","h","i","j","k","l","m",
     "n","o","p","q","r","s","t","u","v","w","x","y","z" >>

UpperSet == { UpperChars[i] : i \in 1..26 }

LowerSet == { LowerChars[i] : i \in 1..26 }

\* ch - 'A' for an uppercase ch, ch - 'a' for a lowercase one
AlphaIndex ==
  [ ch \in UpperSet \cup LowerSet |->
      CHOOSE i \in 0..25 : UpperChars[i+1] = ch \/ LowerChars[i+1] = ch ]

isupper(ch) == ch \in UpperSet

isalpha(ch) == ch \in UpperSet \cup LowerSet

toupper(ch) == IF ch \in LowerSet THEN UpperChars[AlphaIndex[ch] + 1] ELSE ch

tolower(ch) == IF ch \in UpperSet THEN LowerChars[AlphaIndex[ch] + 1] ELSE ch

\* The value v itself.  Comparing v makes the checker compute a function
\* written as [x \in S |-> e] once, instead of computing e at every use.
Evaluated(v) == IF v = v THEN v ELSE v

\* The value e itself, computed once v has been computed: the loops below
\* hand their running value v to the next iteration this way.
After(v, e) == IF v = v THEN e ELSE e

\* ------------------------------------------------------------------------
\* Input data: the tile table (tiles.txt), read by read_tile_data.
\* Entry i+1 is the point value of the letter with index i; entry 27 is
\* the blank.
\* ------------------------------------------------------------------------
TilePoints ==
  << 1, 3, 3, 2, 1, 4, 2, 4, 1, 8, 5, 1, 3,
     1, 1, 3, 10, 1, 1, 1, 1, 4, 4, 8, 4, 10, 0 >>

global_tiles ==
  [ i \in 0..26 |->
      [ letter |-> IF i < 26 THEN UpperChars[i+1] ELSE "*",
        points |-> TilePoints[i+1] ] ]

\* ------------------------------------------------------------------------
\* Lexicon and trie
\*
\* global_words is an unordered_map; the model keeps it as the sequence of
\* its keys in iteration order (each key once).  A trie is a function from
\* node identities to TrieNode records; the identity of a node is the
\* sequence of letters leading to it from the root, the root being << >>.
\* children holds node identities in push_back order and letter_indexes
\* the 0-based position of each letter's child in children, or -1.
\* ------------------------------------------------------------------------
Range(seq) == { seq[i] : i \in 1..Len(seq) }

InLexicon(words, w) == w \in Range(words)

new_TrieNode(letter) ==
  [ letter |-> letter,
    is_terminal_node |-> FALSE,
    children |-> << >>,
    letter_indexes |-> Evaluated([ i \in 0..25 |-> -1 ]) ]

RECURSIVE insert_loop(_, _, _, _)
insert_loop(trie, word, i, curr_node) ==
  IF i > Len(word)
  THEN [ trie EXCEPT ![curr_node].is_terminal_node = TRUE ]
  ELSE
    LET letter_index == AlphaIndex[word[i]]
        child == Append(curr_node, word[i])
        trie2 ==
          IF trie[curr_node].letter_indexes[letter_index] = -1
          THEN [ trie EXCEPT
                   ![curr_node].children = Append(@, child),
                   ![curr_node].letter_indexes[letter_index] =
                       Len(trie[curr_node].children) ]
               @@ (child :> new_TrieNode(word[i]))
          ELSE trie
        child_index == trie2[curr_node].letter_indexes[letter_index]
    IN insert_loop(trie2, word, i + 1, trie2[curr_node].children[child_index + 1])

insert_into_trie(trie, word) == insert_loop(trie, word, 1, << >>)

\* regex_match(str, "[A-Z]+")
all_uppercase(str) == Len(str) >= 1 /\ \A i \in 1..Len(str) : str[i] \in UpperSet

RECURSIVE create_loop_any_length(_, _, _)
RECURSIVE create_loop(_, _, _)
\* create_word_trie's loop without the test of the length
create_loop_any_length(trie, words, k) ==
  IF k > Len(words) THEN trie
  ELSE create_loop_any_length(IF all_uppercase(words[k])
                              THEN insert_into_trie(trie, words[k])
                              ELSE trie,
                              words, k + 1)

create_loop(trie, words, k) ==
  IF k > Len(words) THEN trie
  ELSE LET str == words[k]
       IN create_loop(IF Len(str) > 2 /\ all_uppercase(str)
                      THEN insert_into_trie(trie, str)
                      ELSE trie,
                      words, k + 1)

create_word_trie(words) ==
  create_loop((<< >> :> new_TrieNode("*")), words, 1)

\* ------------------------------------------------------------------------
\* Board
\* ------------------------------------------------------------------------
Rows == 1..NUM_BOARD_ROWS

Cols == 1..NUM_BOARD_COLS

AllRows == 0..(NUM_BOARD_ROWS + 1)

AllCols == 0..(NUM_BOARD_COLS + 1)

all_invalid == Evaluated([ i \in 0..25 |-> FALSE ])

all_valid == Evaluated([ i \in 0..25 |-> TRUE ])

\* The character of board.txt at a position and the SquareType it denotes
SquareTypeOf(ch) ==
  CASE ch = "W" -> "triple_word"
    [] ch = "w" -> "double_word"
    [] ch = "L" -> "triple_letter"
    [] ch = "l" -> "double_letter"
    [] ch = "." -> "regular"
    [] ch = "x" -> "outside"

\* read_board_data for a layout given as a function from positions to the
\* characters of board.txt.  min_across_word_length is not set by the code
\* here; every in-bounds value is written by update_min_across_word_length
\* before it is read, the model starts it at -1.
read_board_data(layout) ==
  Evaluated(
  [ r \in AllRows |->
    [ c \in AllCols |->
      [ type |-> SquareTypeOf(layout[r][c]),
        down_cross_check |-> IF layout[r][c] = "x" THEN all_invalid
                             ELSE all_valid,
        letter |-> ".",
        row |-> r,
        col |-> c,
        min_across_word_length |-> -1 ] ] ])

\* read_test_game_data: game maps in-bounds positions to characters
read_test_game_data(board, game) ==
  Evaluated(
  [ r \in AllRows |->
    [ c \in AllCols |->
      IF r \in Rows /\ c \in Cols
      THEN [ board[r][c] EXCEPT !.letter = game[r][c] ]
      ELSE board[r][c] ] ])

\* ------------------------------------------------------------------------
\* Cross checks
\* ------------------------------------------------------------------------
RECURSIVE above_fragment(_, _, _)
above_fragment(board, check_row, col) ==
  IF board[check_row][col].letter # "." /\ board[check_row][col].type # "outside"
  THEN Append(above_fragment(board, check_row - 1, col),
              toupper(board[check_row][col].letter))
  ELSE << >>

RECURSIVE below_fragment(_, _, _)
below_fragment(board, check_row, col) ==
  IF board[check_row][col].letter # "." /\ board[check_row][col].type # "outside"
  THEN << toupper(board[check_row][col].letter) >>
       \o below_fragment(board, check_row + 1, col)
  ELSE << >>

\* The test of a word against the lexicon that leaves out the words of two
\* letters, which the trie does not hold either
found_in_words_longer_than_two(words, test_word) ==
  InLexicon(words, test_word) /\ Len(test_word) > 2

\* global_words.find(test_word) != global_words.end()
found_in_words(words, test_word) == InLexicon(words, test_word)

update_down_cross_checks(words, board) ==
  Evaluated(
  [ row \in AllRows |->
    [ col \in AllCols |->
      IF row \in Rows /\ col \in Cols /\ board[row][col].letter = "."
      THEN LET above_square == above_fragment(board, row - 1, col)
               below_square == below_fragment(board, row + 1, col)
           IN IF above_square = << >> /\ below_square = << >>
              THEN board[row][col]
              ELSE [ board[row][col] EXCEPT !.down_cross_check =
                       [ i \in 0..25 |->
                           found_in_words(words,
                                          above_square \o << UpperChars[i+1] >>
                                            \o below_square) ] ]
      ELSE board[row][col] ] ])

\* ------------------------------------------------------------------------
\* Minimum across word length
\* ------------------------------------------------------------------------
\* One row, scanned from column col down to 1; min_word_length is the
\* running value of the local variable, acc the values written so far.
\* The test for a tile on the square to the right
right_is_occupied(board, row, col) == board[row][col+1].letter # "."

\* "If the square to its immediate left is occupied with a letter"
left_is_occupied(board, row, col) == board[row][col-1].letter # "."

RECURSIVE min_length_scan(_, _, _, _, _)
min_length_scan(board, row, col, min_word_length, acc) ==
  IF col < 1 THEN acc
  ELSE
    IF left_is_occupied(board, row, col)
    THEN min_length_scan(board, row, col - 1, min_word_length,
                         [ acc EXCEPT ![col] = -1 ])
    ELSE IF \/ board[row-1][col].letter # "."
            \/ board[row+1][col].letter # "."
            \/ board[row][col+1].letter # "."
            \/ board[row][col].letter # "."
    THEN min_length_scan(board, row, col - 1, 1, [ acc EXCEPT ![col] = 1 ])
    ELSE IF min_word_length = -1
    THEN min_length_scan(board, row, col - 1, min_word_length,
                         [ acc EXCEPT ![col] = -1 ])
    ELSE min_length_scan(board, row, col - 1, min_word_length + 1,
                         [ acc EXCEPT ![col] = min_word_length + 1 ])

update_min_across_word_length(board) ==
  Evaluated(
  [ row \in AllRows |->
    IF row \in Rows
    THEN LET mins == min_length_scan(board, row, NUM_BOARD_COLS, -1,
                                     [ c \in Cols |-> -1 ])
         IN [ col \in AllCols |->
              IF col \in Cols
              THEN [ board[row][col] EXCEPT !.min_across_word_length = mins[col] ]
              ELSE board[row][col] ]
    ELSE board[row] ])

\* ------------------------------------------------------------------------
\* Rack
\* ------------------------------------------------------------------------
\* fill_rack: letters is a sequence of characters
RECURSIVE fill_loop(_, _, _, _)
fill_loop(rack, letters, i, num_chars_read) ==
  IF i > num_chars_read THEN rack
  ELSE IF isupper(letters[i])
  THEN fill_loop([ rack EXCEPT ![AlphaIndex[letters[i]]] = @ + 1 ],
                 letters, i + 1, num_chars_read)
  ELSE IF letters[i] = "*"
  THEN fill_loop([ rack EXCEPT ![26] = @ + 1 ], letters, i + 1, num_chars_read)
  ELSE fill_loop(rack, letters, i + 1, num_chars_read)

\* fill_rack that reads the whole string
fill_rack_whole_input(letters) ==
  fill_loop(Evaluated([ i \in 0..26 |-> 0 ]), letters, 1, Len(letters))

fill_rack(letters) ==
  LET num_chars_read == IF NUM_RACK_TILES > Len(letters) THEN Len(letters)
                        ELSE NUM_RACK_TILES
  IN fill_loop(Evaluated([ i \in 0..26 |-> 0 ]), letters, 1, num_chars_read)

\* ------------------------------------------------------------------------
\* Scorer
\* ------------------------------------------------------------------------
\* upper_points giving a blank tile the points of its letter
upper_points_of_blank_too(letter) ==
  IF isalpha(letter) THEN global_tiles[AlphaIndex[letter]].points ELSE 0

\* "Only add points if the letter is uppercase (lowercase = blanks)"
upper_points(letter) ==
  IF isupper(letter) THEN global_tiles[AlphaIndex[letter]].points ELSE 0

\* The two while loops of calc_col_cross_pts and the left and right loops
\* of calc_across_pts: the points of the run of tiles that starts at
\* (row, col) and continues by steps of (drow, dcol)
RECURSIVE run_pts(_, _, _, _, _)
run_pts(board, row, col, drow, dcol) ==
  IF board[row][col].type # "outside" /\ board[row][col].letter # "."
  THEN upper_points(board[row][col].letter)
       + run_pts(board, row + drow, col + dcol, drow, dcol)
  ELSE 0

calc_col_cross_pts(board, row, col) ==
  run_pts(board, row - 1, col, -1, 0) + run_pts(board, row + 1, col, 1, 0)

\* The letter bonus of a square applied to the points of its tile
with_letter_bonus(type, letter_pts) ==
  IF type = "double_letter" THEN letter_pts * 2
  ELSE IF type = "triple_letter" THEN letter_pts * 3
  ELSE letter_pts

\* The word bonus of a square applied to the points of its cross word
with_word_bonus(type, col_cross_pts) ==
  IF type = "double_word" THEN col_cross_pts * 2
  ELSE IF type = "triple_word" THEN col_cross_pts * 3
  ELSE col_cross_pts

\* letter_pts of one square of the move, after the letter bonus
letter_pts_of(board, sqr) ==
  with_letter_bonus(board[sqr.row][sqr.col].type, upper_points(sqr.letter))

\* col_cross_pts_of without the test for a tile above or below
col_cross_pts_of_untested(board, sqr) ==
  with_word_bonus(board[sqr.row][sqr.col].type,
    calc_col_cross_pts(board, sqr.row, sqr.col) + letter_pts_of(board, sqr))

\* col_cross_pts of one square of the move, as added to total_cross_pts
col_cross_pts_of(board, sqr) ==
  with_word_bonus(board[sqr.row][sqr.col].type,
    IF board[sqr.row - 1][sqr.col].letter # "."
       \/ board[sqr.row + 1][sqr.col].letter # "."
    THEN calc_col_cross_pts(board, sqr.row, sqr.col) + letter_pts_of(board, sqr)
    ELSE 0)

\* The first for loop of calc_across_pts
RECURSIVE move_loop(_, _, _, _)
move_loop(board, across_move, i, acc) ==
  IF i > Len(across_move) THEN acc
  ELSE
    move_loop(board, across_move, i + 1,
      [ row_pts |-> acc.row_pts + letter_pts_of(board, across_move[i]),
        total_cross_pts |-> acc.total_cross_pts
                            + col_cross_pts_of(board, across_move[i]),
        num_double_word |-> acc.num_double_word
          + (IF board[across_move[i].row][across_move[i].col].type
                  = "double_word" THEN 1 ELSE 0),
        num_triple_word |-> acc.num_triple_word
          + (IF board[across_move[i].row][across_move[i].col].type
                  = "triple_word" THEN 1 ELSE 0) ])

\* The values calc_across_pts has after its first loop
after_move_loop(board, across_move) ==
  move_loop(board, across_move, 1,
            [ row_pts |-> 0, total_cross_pts |-> 0,
              num_double_word |-> 0, num_triple_word |-> 0 ])

\* The loop over the squares from the first to the last tile of the move
RECURSIVE between_pts(_, _, _, _)
between_pts(board, row, col, last_col) ==
  IF col <= last_col
  THEN upper_points(board[row][col].letter)
       + between_pts(board, row, col + 1, last_col)
  ELSE 0

RECURSIVE times(_, _, _)
times(pts, factor, n) == IF n < 1 THEN pts ELSE times(pts * factor, factor, n - 1)

\* row_pts with the tiles of the board left of, between and right of the
\* squares of the move
row_pts_of(board, across_move, acc) ==
  acc.row_pts
  + run_pts(board, across_move[1].row, across_move[1].col - 1, 0, -1)
  + between_pts(board, across_move[1].row, across_move[1].col,
                across_move[Len(across_move)].col)
  + run_pts(board, across_move[1].row,
            across_move[Len(across_move)].col + 1, 0, 1)

\* The word bonuses added up, not compounded
with_word_bonuses_added(row_pts, acc) ==
  IF acc.num_double_word + acc.num_triple_word = 0 THEN row_pts
  ELSE row_pts * (2 * acc.num_double_word + 3 * acc.num_triple_word)

\* "Account for double word squares" and "triple word squares"
with_word_bonuses(row_pts, acc) ==
  times(times(row_pts, 2, acc.num_double_word), 3, acc.num_triple_word)

\* row_pts at the end of calc_across_pts, given the values after its
\* first loop
row_pts_after(board, across_move, acc) ==
  with_word_bonuses(row_pts_of(board, across_move, acc), acc)

\* row_pts at the end of calc_across_pts, for a non-empty move
across_row_pts(board, across_move) ==
  row_pts_after(board, across_move, after_move_loop(board, across_move))

\* total_cross_pts at the end of calc_across_pts
across_cross_pts(board, across_move) ==
  after_move_loop(board, across_move).total_cross_pts

\* bingo_pts for more than 7 tiles only
bingo_pts_above_seven(across_move) ==
  IF Len(across_move) > 7 THEN 50 ELSE 0

\* "Account for a bingo": 50 points for a move of 7 tiles
bingo_pts(across_move) ==
  IF Len(across_move) >= 7 THEN 50 ELSE 0

\* calc_across_pts returning -1, not 0, for a move without squares
calc_across_pts_no_move_minus_one(board, across_move) ==
  IF Len(across_move) = 0 THEN -1
  ELSE across_row_pts(board, across_move)
       + across_cross_pts(board, across_move)
       + bingo_pts(across_move)

calc_across_pts(board, across_move) ==
  IF Len(across_move) = 0 THEN 0
  ELSE across_row_pts(board, across_move)
       + across_cross_pts(board, across_move)
       + bingo_pts(across_move)

\* ------------------------------------------------------------------------
\* Move search
\* ------------------------------------------------------------------------
\* A square of a move carries the fields add_sqr_to_move sets
\* add_sqr_to_move that puts the square in front of the move
add_sqr_in_front_of_move(row, col, letter, curr_move) ==
  << [ row |-> row, col |-> col, letter |-> letter ] >> \o curr_move

add_sqr_to_move(row, col, letter, curr_move) ==
  Append(curr_move, [ row |-> row, col |-> col, letter |-> letter ])

\* is_legal_move without the test of the terminal node
is_legal_move_any_prefix(trie, node, min_word_length, curr_move) ==
  Len(curr_move) >= min_word_length

\* The test of extend_right for a complete move: a word is created and it
\* is long enough to connect with the tiles of the board
is_legal_move(trie, node, min_word_length, curr_move) ==
  /\ trie[node].is_terminal_node = TRUE
  /\ Len(curr_move) >= min_word_length

\* record_move that also takes a move of the same points
record_move_on_ties(trie, node, min_word_length, curr_move, curr_pts, best) ==
  IF is_legal_move(trie, node, min_word_length, curr_move)
     /\ curr_pts >= best.best_pts
  THEN [ best_move |-> curr_move, best_pts |-> curr_pts ]
  ELSE best

\* "Check if a legal move has been found" and "record the play if it is the
\* best one so far"
record_move(trie, node, min_word_length, curr_move, curr_pts, best) ==
  IF is_legal_move(trie, node, min_word_length, curr_move)
     /\ curr_pts > best.best_pts
  THEN [ best_move |-> curr_move, best_pts |-> curr_pts ]
  ELSE best

\* extend_right returns the pair (best_move, best_pts) it leaves in its
\* reference parameters; children_loop is its for loop from child i on,
\* try_child the body of the loop for the child of letter child_letter.
RECURSIVE extend_right(_, _, _, _, _, _, _, _)
RECURSIVE children_loop(_, _, _, _, _, _, _, _, _)
RECURSIVE try_child(_, _, _, _, _, _, _, _, _)
RECURSIVE extend_from(_, _, _, _, _, _, _, _)
extend_right(board, rack, trie, node, curr_square, min_word_length, curr_move, best) ==
  extend_from(board, rack, trie, node,
              board[curr_square.row][curr_square.col],
              min_word_length, curr_move, best)

\* The body of extend_right once sqr is read from the board
extend_from(board, rack, trie, node, sqr, min_word_length, curr_move, best) ==
  IF sqr.type = "outside" THEN best
  ELSE IF sqr.letter = "."
  THEN children_loop(board, rack, trie, node, sqr, min_word_length,
         curr_move,
         record_move(trie, node, min_word_length, curr_move,
                     calc_across_pts(board, curr_move), best),
         1)
  ELSE IF trie[node].letter_indexes[AlphaIndex[toupper(sqr.letter)]] # -1
  THEN extend_right(board, rack, trie,
         trie[node].children[
           trie[node].letter_indexes[AlphaIndex[toupper(sqr.letter)]] + 1],
         board[sqr.row][sqr.col + 1],
         min_word_length, curr_move, best)
  ELSE best

children_loop(board, rack, trie, node, sqr, min_word_length, curr_move, best, i) ==
  IF i > Len(trie[node].children) THEN best
  ELSE children_loop(board, rack, trie, node, sqr, min_word_length, curr_move,
         try_child(board, rack, trie, trie[node].children[i], sqr,
                   min_word_length, curr_move, best,
                   trie[trie[node].children[i]].letter),
         i + 1)

try_child(board, rack, trie, child, sqr, min_word_length, curr_move, best, child_letter) ==
  IF rack[AlphaIndex[child_letter]] > 0
     /\ sqr.down_cross_check[AlphaIndex[child_letter]]
  THEN extend_right(board,
                    [ rack EXCEPT ![AlphaIndex[child_letter]] = @ - 1 ],
                    trie, child, board[sqr.row][sqr.col + 1],
                    min_word_length,
                    add_sqr_to_move(sqr.row, sqr.col, child_letter, curr_move),
                    best)
  ELSE IF rack[26] > 0 /\ sqr.down_cross_check[AlphaIndex[child_letter]]
  THEN extend_right(board,
                    [ rack EXCEPT ![26] = @ - 1 ],
                    trie, child, board[sqr.row][sqr.col + 1],
                    min_word_length,
                    add_sqr_to_move(sqr.row, sqr.col,
                                    tolower(child_letter), curr_move),
                    best)
  ELSE best

\* extend_right called for every square, for words of any length
try_square_unanchored(board, rack, trie, sqr, best) ==
  extend_right(board, rack, trie, << >>, sqr, 1, << >>, best)

\* extend_right called for the square (row, col) if a word may start there
try_square(board, rack, trie, sqr, best) ==
  IF sqr.min_across_word_length <= NUM_RACK_TILES
     /\ sqr.min_across_word_length # -1
  THEN extend_right(board, rack, trie, << >>, sqr,
                    sqr.min_across_word_length, << >>, best)
  ELSE best

\* The inner loop of find_best_across_move: the squares of one row from
\* column col on; across_col_next goes on once the square is done
RECURSIVE across_col_loop(_, _, _, _, _, _)
RECURSIVE across_col_next(_, _, _, _, _, _)
across_col_loop(board, rack, trie, row, col, best) ==
  IF col > NUM_BOARD_COLS THEN best
  ELSE across_col_next(board, rack, trie, row, col,
                       try_square(board, rack, trie, board[row][col], best))

across_col_next(board, rack, trie, row, col, best) ==
  After(best, across_col_loop(board, rack, trie, row, col + 1, best))

\* The outer loop of find_best_across_move: the rows from row on
RECURSIVE across_row_loop(_, _, _, _, _)
RECURSIVE across_row_next(_, _, _, _, _)
across_row_loop(board, rack, trie, row, best) ==
  IF row > NUM_BOARD_ROWS THEN best
  ELSE across_row_next(board, rack, trie, row,
                       across_col_loop(board, rack, trie, row, 1, best))

across_row_next(board, rack, trie, row, best) ==
  After(best, across_row_loop(board, rack, trie, row + 1, best))

find_best_across_move(board, rack, trie) ==
  across_row_loop(board, rack, trie, 1,
                  [ best_move |-> << >>, best_pts |-> 0 ]).best_move

\* invert_board that copies every square from its own position
invert_board_not_transposed(words, board) ==
  update_min_across_word_length(update_down_cross_checks(words, board))

invert_board(words, board) ==
  LET inverted_board ==
        Evaluated(
        [ row \in AllRows |->
          [ col \in AllCols |->
            IF row \in Rows /\ col \in Cols
            THEN [ board[col][row] EXCEPT !.row = row, !.col = col ]
            ELSE board[row][col] ] ])
  IN update_min_across_word_length(
       update_down_cross_checks(words, inverted_board))

invert_move(across_move) ==
  [ i \in 1..Len(across_move) |->
      [ across_move[i] EXCEPT !.row = across_move[i].col,
                              !.col = across_move[i].row ] ]

find_best_down_move(words, board, rack, trie) ==
  invert_move(find_best_across_move(invert_board(words, board), rack, trie))

calc_down_pts(words, board, down_move) ==
  calc_across_pts(invert_board(words, board), invert_move(down_move))

is_occupied(board) ==
  \E row \in Rows, col \in Cols : board[row][col].letter # "."

mid_row == NUM_BOARD_ROWS \div 2 + 1

mid_col == NUM_BOARD_COLS \div 2 + 1

\* first_move_min_length one too short left of the center square
first_move_min_length_short(col) ==
  IF col = mid_col THEN 2 ELSE mid_col - col

\* The minimum length find_best_move gives the square of the center row in
\* column col, so that the first word covers the center square
first_move_min_length(col) ==
  IF col = mid_col THEN 2 ELSE mid_col - col + 1

\* The loop of find_best_move over the squares left of and including the
\* center square; board is find_best_move's own copy, first_move_try the
\* body of the loop once the minimum length of the square is set
RECURSIVE first_move_loop(_, _, _, _, _)
RECURSIVE first_move_try(_, _, _, _, _)
RECURSIVE first_move_next(_, _, _, _, _)
first_move_loop(board, rack, trie, col, best) ==
  IF col > mid_col THEN best
  ELSE first_move_try(
         [ board EXCEPT ![mid_row][col].min_across_word_length =
             first_move_min_length(col) ],
         rack, trie, col, best)

first_move_try(board, rack, trie, col, best) ==
  first_move_next(board, rack, trie, col,
                  try_square(board, rack, trie, board[mid_row][col], best))

first_move_next(board, rack, trie, col, best) ==
  After(best, first_move_loop(board, rack, trie, col + 1, best))

\* select_best_move with >= in place of >
select_best_move_ties_across(best_across_move, best_across_pts, best_down_move, best_down_pts) ==
  IF best_across_pts >= best_down_pts
  THEN [ best_move |-> best_across_move, best_pts |-> best_across_pts ]
  ELSE [ best_move |-> best_down_move, best_pts |-> best_down_pts ]

\* The selection of find_best_move between the best across move and the
\* best down move
select_best_move(best_across_move, best_across_pts, best_down_move, best_down_pts) ==
  IF best_across_pts > best_down_pts
  THEN [ best_move |-> best_across_move, best_pts |-> best_across_pts ]
  ELSE [ best_move |-> best_down_move, best_pts |-> best_down_pts ]

\* A move with the points calc_across_pts gives it
across_with_pts(board, across_move) ==
  [ move |-> across_move, pts |-> calc_across_pts(board, across_move) ]

\* A move with the points calc_down_pts gives it
down_with_pts(words, board, down_move) ==
  [ move |-> down_move, pts |-> calc_down_pts(words, board, down_move) ]

\* The branch of find_best_move for a board with a tile
best_of_across_and_down(across, down) ==
  select_best_move(across.move, across.pts, down.move, down.pts)

\* find_best_move's own copy of the board when it returns: on a board
\* without tiles its loop has overwritten the minimum lengths of the center
\* row up to the center square
find_best_move_board(board) ==
  IF is_occupied(board) THEN board
  ELSE [ board EXCEPT ![mid_row] =
           [ col \in AllCols |->
               IF col \in 1..mid_col
               THEN [ board[mid_row][col] EXCEPT !.min_across_word_length =
                        first_move_min_length(col) ]
               ELSE board[mid_row][col] ] ]

\* An argument the callee writes through to the caller's object
passed_by_reference(caller_value, callee_value) == callee_value

\* The caller's object after a call that took a copy of it: SquareGrid board
\* in the parameter list of find_best_move
passed_by_value(caller_value, callee_value) == caller_value

\* find_best_move returns the values it leaves in best_move and best_pts
find_best_move(words, trie, board, rack, best_move, best_pts) ==
  IF is_occupied(board)
  THEN best_of_across_and_down(
         across_with_pts(board, find_best_across_move(board, rack, trie)),
         down_with_pts(words, board,
                       find_best_down_move(words, board, rack, trie)))
  ELSE first_move_loop(board, rack, trie, 1,
                       [ best_move |-> best_move, best_pts |-> best_pts ])

\* ------------------------------------------------------------------------
\* Inputs: the word list, the board layout, the test game, the rack strings
\* and the tiles typed at the console
\* ------------------------------------------------------------------------
\* The keys of global_words, in the order the map iterates over them
WordList ==
  << <<"C","A","T">>, <<"B","A","T">>, <<"A","T">>, <<"B","A">>,
     <<"C","E","D","A","R">>, <<"C","E","D","A","R","S">>,
     <<"R","E","T","A","I","N","S">>, <<"A","T","e">> >>

\* board.txt with a double word bonus on the center square and no other
\* bonus square
CenterLayout ==
  [ r \in AllRows |-> [ c \in AllCols |->
      IF r \notin Rows \/ c \notin Cols THEN "x"
      ELSE IF r = 8 /\ c = 8 THEN "w"
      ELSE "." ] ]

\* board.txt with bonus squares of every kind around the center square
BonusLayout ==
  [ r \in AllRows |-> [ c \in AllCols |->
      IF r \notin Rows \/ c \notin Cols THEN "x"
      ELSE IF r = 8 /\ c = 8 THEN "w"
      ELSE IF r = 8 /\ c = 5 THEN "W"
      ELSE IF r = 8 /\ c = 11 THEN "W"
      ELSE IF r = 8 /\ c = 7 THEN "l"
      ELSE IF r = 7 /\ c = 8 THEN "L"
      ELSE "." ] ]

Layouts == { CenterLayout, BonusLayout }

\* test_game_across.txt: no tile, the word CAT on the center row, or one
\* tile below the center square
EmptyGame == [ r \in Rows |-> [ c \in Cols |-> "." ] ]

CatGame == [ EmptyGame EXCEPT ![8][7] = "C", ![8][8] = "A", ![8][9] = "T" ]

TileGame == [ EmptyGame EXCEPT ![9][8] = "A" ]

TestGames == { EmptyGame, CatGame, TileGame }

\* The rack run_scrabble starts with
InitialRackStr == <<"E","N","T","I","R","E","E">>

\* The rack strings typed at the console; the last one is a blank and a T
\* among characters that are no tiles, with two letters past the seventh
\* character
RackStrings ==
  { <<"C","E","D","A","R","S">>,
    <<"R","E","T","A","I","N","S">>,
    <<"B","A","T">>,
    <<"*","t","T",".","?","1","-","A","B">> }

\* The tiles typed at the console: letter, row and column
TileEdits ==
  { << "a", 8, 8 >>, << "a", 8, 9 >>, << "T", 10, 8 >>,
    << ".", 8, 8 >>, << ".", 9, 8 >>, << "A", 0, 8 >> }

\* The most "t" and "r" commands read from the console in one run
MaxInputs == 2

\* ------------------------------------------------------------------------
\* State
\* ------------------------------------------------------------------------
VARIABLES
  global_words,      \* the lexicon, keys in iteration order
  global_trie_root,  \* the trie built from global_words
  board,             \* run_scrabble's board
  rack_str,          \* run_scrabble's rack string
  rack,              \* run_scrabble's rack
  best_move,         \* the move of the last find_best_move call
  best_pts,          \* and its points
  pc,                \* position in run_scrabble
  inputs,            \* the number of "t" and "r" commands read so far
  stack,             \* the activations of extend_right, when the across
                     \* search is followed step by step; empty otherwise
  anchor             \* the square the loops of find_best_across_move are
                     \* at in the step by step search

vars == << global_words, global_trie_root, board, rack_str, rack,
           best_move, best_pts, pc, inputs, stack, anchor >>

Init ==
  /\ global_words = WordList
  /\ global_trie_root = create_word_trie(WordList)
  /\ \E layout \in Layouts, game \in TestGames :
       board = read_test_game_data(read_board_data(layout), game)
  /\ rack_str = InitialRackStr
  /\ rack = fill_rack(InitialRackStr)
  /\ best_move = << >>
  /\ best_pts = 0
  /\ pc = "find"
  /\ inputs = 0
  /\ stack = << >>
  /\ anchor = [ row |-> 1, col |-> 1 ]

\* One pass of the outer loop of run_scrabble up to the call of
\* find_best_move
FindBestMove ==
  /\ pc = "find"
  /\ \E updated \in { update_min_across_word_length(
                         update_down_cross_checks(global_words, board)) } :
       /\ board' = passed_by_value(updated, find_best_move_board(updated))
       /\ \E best \in { find_best_move(global_words, global_trie_root,
                                        updated, rack, best_move, best_pts) } :
            /\ best_move' = best.best_move
            /\ best_pts' = best.best_pts
  /\ pc' = "output"
  /\ UNCHANGED << stack, anchor >>
  /\ UNCHANGED << global_words, global_trie_root, rack_str, rack, inputs >>

\* The best move is printed and the menu is entered
OutputBestMove ==
  /\ pc = "output"
  /\ pc' = "menu"
  /\ UNCHANGED << stack, anchor >>
  /\ UNCHANGED << global_words, global_trie_root, board, rack_str, rack,
                  best_move, best_pts, inputs >>

\* Input "t": a tile's letter, row and column
ChangeTile ==
  /\ pc = "menu"
  /\ inputs < MaxInputs
  /\ inputs' = inputs + 1
  /\ \E edit \in TileEdits :
       LET letter == edit[1]
           row == edit[2]
           col == edit[3]
       IN IF (isalpha(letter) \/ letter = ".")
             /\ 1 <= row /\ row <= NUM_BOARD_ROWS
             /\ 1 <= col /\ col <= NUM_BOARD_COLS
          THEN board' = [ board EXCEPT ![row][col].letter = letter ]
          ELSE board' = board
  /\ UNCHANGED << stack, anchor >>
  /\ UNCHANGED << global_words, global_trie_root, rack_str, rack,
                  best_move, best_pts, pc >>

\* Input "r": the tiles in the rack
ChangeRack ==
  /\ pc = "menu"
  /\ inputs < MaxInputs
  /\ inputs' = inputs + 1
  /\ \E str \in RackStrings :
       /\ rack_str' = str
       /\ rack' = fill_rack(str)
  /\ UNCHANGED << stack, anchor >>
  /\ UNCHANGED << global_words, global_trie_root, board,
                  best_move, best_pts, pc >>

\* Input "f": leave the menu; the pass of the outer loop ends and the next
\* one declares best_move and best_pts anew
EnterFind ==
  /\ pc = "menu"
  /\ pc' = "find"
  /\ best_move' = << >>
  /\ best_pts' = 0
  /\ UNCHANGED << stack, anchor >>
  /\ UNCHANGED << global_words, global_trie_root, board, rack_str, rack,
                  inputs >>

\* Any other input: run_scrabble returns
Exit ==
  /\ pc = "menu"
  /\ pc' = "done"
  /\ UNCHANGED << stack, anchor >>
  /\ UNCHANGED << global_words, global_trie_root, board, rack_str, rack,
                  best_move, best_pts, inputs >>

Next ==
  \/ FindBestMove
  \/ OutputBestMove
  \/ ChangeTile
  \/ ChangeRack
  \/ EnterFind
  \/ Exit

Spec == Init /\ [][Next]_vars

\* ------------------------------------------------------------------------
\* find_best_across_move followed step by step: anchor is the square its
\* two loops are at, pc is "across" at the head of the inner loop, "search"
\* inside the call of extend_right and "searched" once the loops are over.
\* stack holds the activations of extend_right, the innermost last.
\* An activation has the parameters rack, node, curr_square,
\* min_word_length and curr_move, which are its own copies, the local sqr
\* (by its position), the loop index i and the place "at" where it stands:
\* "entry", "loop" (at the head of the for loop), "tile", "blank" or "letter"
\* (inside the recursive call of that branch).  rack_before and move_before
\* record rack and curr_move as they were when the activation last took a
\* tile from the rack, branches the number of recursive calls of the loop
\* that have returned and last the branch the loop took for the previous
\* child ("tile", "blank" or "none"); the code has no such variables.
\* ------------------------------------------------------------------------
\* The boards of the step by step search; EdgeGame has a tile in the last
\* column
EdgeGame == [ EmptyGame EXCEPT ![8][15] = "T" ]

SearchGames == { CatGame, TileGame, EdgeGame }

\* The racks of the step by step search; the last one holds a blank next
\* to the letters of a word
SearchRackStrings ==
  RackStrings \cup { InitialRackStr, <<"C","A","T","*">> }

\* The boards find_best_move hands to the across search: the board itself
\* and, for the down search, the inverted board
SearchBoards(words, b) == { b, invert_board(words, b) }

\* The for loops of find_best_across_move: the square after sqr
next_anchor(sqr) ==
  IF sqr.col < NUM_BOARD_COLS THEN [ row |-> sqr.row, col |-> sqr.col + 1 ]
  ELSE [ row |-> sqr.row + 1, col |-> 1 ]

\* "return" at the border with the move recorded first
border_recorded(trie, node, min_word_length, curr_move, curr_pts, best) ==
  record_move(trie, node, min_word_length, curr_move, curr_pts, best)

\* "return" at the border: best_move and best_pts stay as they are
border_returned(trie, node, min_word_length, curr_move, curr_pts, best) == best

new_activation(own_rack, node, curr_square, min_word_length, curr_move) ==
  [ rack |-> own_rack,
    node |-> node,
    curr_square |-> curr_square,
    min_word_length |-> min_word_length,
    curr_move |-> curr_move,
    sqr |-> curr_square,
    i |-> 0,
    at |-> "entry",
    rack_before |-> own_rack,
    move_before |-> curr_move,
    branches |-> 0,
    last |-> "none" ]

\* curr_move.pop_back()
pop_back(curr_move) == SubSeq(curr_move, 1, Len(curr_move) - 1)

\* The tile stays out of the rack
not_placed_back(own_rack, index) == own_rack

\* rack[child_letter_index]++ and rack[26]++
placed_back(own_rack, index) == [ own_rack EXCEPT ![index] = @ + 1 ]

\* The square itself in place of the one to its right
not_moved(sqr) == sqr

\* (*board)[sqr.row][sqr.col+1], by its position
right_of(sqr) == [ row |-> sqr.row, col |-> sqr.col + 1 ]

SearchInit ==
  /\ global_words = WordList
  /\ global_trie_root = create_word_trie(WordList)
  /\ \E game \in SearchGames :
       board \in SearchBoards(WordList,
                  update_min_across_word_length(
                    update_down_cross_checks(WordList,
                      read_test_game_data(read_board_data(BonusLayout), game))))
  /\ \E str \in SearchRackStrings :
       /\ rack_str = str
       /\ rack = fill_rack(str)
  /\ best_move = << >>
  /\ best_pts = 0
  /\ pc = "across"
  /\ inputs = 0
  /\ stack = << >>
  /\ anchor = [ row |-> 1, col |-> 1 ]

SearchFrame ==
  UNCHANGED << global_words, global_trie_root, board, rack_str, rack, inputs >>

\* "Only call extend_right when necessary"
AnchorTry ==
  /\ pc = "across"
  /\ anchor.row <= NUM_BOARD_ROWS
  /\ board[anchor.row][anchor.col].min_across_word_length <= NUM_RACK_TILES
  /\ board[anchor.row][anchor.col].min_across_word_length # -1
  /\ stack' = << new_activation(rack, << >>, anchor,
                   board[anchor.row][anchor.col].min_across_word_length,
                   << >>) >>
  /\ pc' = "search"
  /\ UNCHANGED << best_move, best_pts, anchor >>
  /\ SearchFrame

\* No word may start on the square
AnchorSkip ==
  /\ pc = "across"
  /\ anchor.row <= NUM_BOARD_ROWS
  /\ ~( /\ board[anchor.row][anchor.col].min_across_word_length
              <= NUM_RACK_TILES
        /\ board[anchor.row][anchor.col].min_across_word_length # -1 )
  /\ anchor' = next_anchor(anchor)
  /\ UNCHANGED << best_move, best_pts, pc, stack >>
  /\ SearchFrame

\* return best_move
AcrossDone ==
  /\ pc = "across"
  /\ anchor.row > NUM_BOARD_ROWS
  /\ pc' = "searched"
  /\ UNCHANGED << best_move, best_pts, stack, anchor >>
  /\ SearchFrame

\* The innermost activation, its square and the child the loop is at
Top == stack[Len(stack)]

TopSquare == board[Top.sqr.row][Top.sqr.col]

TopChild == global_trie_root[Top.node].children[Top.i + 1]

TopChildIndex == AlphaIndex[global_trie_root[TopChild].letter]

Callers == SubSeq(stack, 1, Len(stack) - 1)

\* The innermost activation returns; the outermost one returns to the
\* loops of find_best_across_move
ReturnFromTop ==
  /\ stack' = Callers
  /\ pc' = IF Len(stack) = 1 THEN "across" ELSE pc
  /\ anchor' = IF Len(stack) = 1 THEN next_anchor(anchor) ELSE anchor

\* The innermost activation goes on as activation, and calls extend_right
\* for the child node on the square to the right with copies of its rack
\* and its move
CallFromTop(activation, child) ==
  /\ stack' = Append(Append(Callers, activation),
                     new_activation(activation.rack, child,
                                    activation.curr_square,
                                    activation.min_word_length,
                                    activation.curr_move))
  /\ UNCHANGED << best_move, best_pts, pc, anchor >>

\* if (sqr.type == outside) return
ExtendOutside ==
  /\ pc = "search"
  /\ Top.at = "entry"
  /\ TopSquare.type = "outside"
  /\ \E best \in { border_returned(global_trie_root, Top.node,
                                   Top.min_word_length, Top.curr_move,
                                   calc_across_pts(board, Top.curr_move),
                                   [ best_move |-> best_move,
                                     best_pts |-> best_pts ]) } :
       /\ best_move' = best.best_move
       /\ best_pts' = best.best_pts
  /\ ReturnFromTop
  /\ SearchFrame

\* The square is empty: a legal move is recorded if it is the best so far,
\* then the loop over the children starts
ExtendEmpty ==
  /\ pc = "search"
  /\ Top.at = "entry"
  /\ TopSquare.type # "outside"
  /\ TopSquare.letter = "."
  /\ \E best \in { record_move(global_trie_root, Top.node,
                               Top.min_word_length, Top.curr_move,
                               calc_across_pts(board, Top.curr_move),
                               [ best_move |-> best_move,
                                 best_pts |-> best_pts ]) } :
       /\ best_move' = best.best_move
       /\ best_pts' = best.best_pts
  /\ stack' = Append(Callers, [ Top EXCEPT !.at = "loop" ])
  /\ UNCHANGED << pc, anchor >>
  /\ SearchFrame

\* The square holds a letter the node has a child for
ExtendLetter ==
  /\ pc = "search"
  /\ Top.at = "entry"
  /\ TopSquare.type # "outside"
  /\ TopSquare.letter # "."
  /\ \E child_index \in
         { global_trie_root[Top.node].letter_indexes[
             AlphaIndex[toupper(TopSquare.letter)]] } :
       /\ child_index # -1
       /\ CallFromTop([ Top EXCEPT !.curr_square = right_of(Top.curr_square),
                                   !.at = "letter" ],
                      global_trie_root[Top.node].children[child_index + 1])
  /\ SearchFrame

\* The square holds a letter the node has no child for
ExtendNoChild ==
  /\ pc = "search"
  /\ Top.at = "entry"
  /\ TopSquare.type # "outside"
  /\ TopSquare.letter # "."
  /\ global_trie_root[Top.node].letter_indexes[
       AlphaIndex[toupper(TopSquare.letter)]] = -1
  /\ UNCHANGED << best_move, best_pts >>
  /\ ReturnFromTop
  /\ SearchFrame

\* The recursive call for the letter of the square has returned
AfterLetter ==
  /\ pc = "search"
  /\ Top.at = "letter"
  /\ UNCHANGED << best_move, best_pts >>
  /\ ReturnFromTop
  /\ SearchFrame

\* The letter of the child is in the rack and in the cross check set of
\* the square: the tile is placed and the search goes on to the right
LoopTile ==
  /\ pc = "search"
  /\ Top.at = "loop"
  /\ Top.i < Len(global_trie_root[Top.node].children)
  /\ Top.rack[TopChildIndex] > 0
  /\ TopSquare.down_cross_check[TopChildIndex]
  /\ CallFromTop([ Top EXCEPT
                     !.rack_before = Top.rack,
                     !.move_before = Top.curr_move,
                     !.rack[TopChildIndex] = @ - 1,
                     !.curr_move = add_sqr_to_move(Top.sqr.row, Top.sqr.col,
                                     global_trie_root[TopChild].letter, @),
                     !.curr_square = right_of(Top.sqr),
                     !.at = "tile" ],
                 TopChild)
  /\ SearchFrame

\* Otherwise a blank is in the rack: it is placed as the letter in
\* lowercase
LoopBlank ==
  /\ pc = "search"
  /\ Top.at = "loop"
  /\ Top.i < Len(global_trie_root[Top.node].children)
  /\ ~(Top.rack[TopChildIndex] > 0 /\ TopSquare.down_cross_check[TopChildIndex])
  /\ Top.rack[26] > 0
  /\ TopSquare.down_cross_check[TopChildIndex]
  /\ CallFromTop([ Top EXCEPT
                     !.rack_before = Top.rack,
                     !.move_before = Top.curr_move,
                     !.rack[26] = @ - 1,
                     !.curr_move = add_sqr_to_move(Top.sqr.row, Top.sqr.col,
                                     tolower(global_trie_root[TopChild].letter),
                                     @),
                     !.curr_square = right_of(Top.sqr),
                     !.at = "blank" ],
                 TopChild)
  /\ SearchFrame

\* Neither branch is taken for the child
LoopSkip ==
  /\ pc = "search"
  /\ Top.at = "loop"
  /\ Top.i < Len(global_trie_root[Top.node].children)
  /\ ~(Top.rack[TopChildIndex] > 0 /\ TopSquare.down_cross_check[TopChildIndex])
  /\ ~(Top.rack[26] > 0 /\ TopSquare.down_cross_check[TopChildIndex])
  /\ stack' = Append(Callers, [ Top EXCEPT !.i = @ + 1, !.last = "none" ])
  /\ UNCHANGED << best_move, best_pts, pc, anchor >>
  /\ SearchFrame

\* The loop over the children is over
LoopEnd ==
  /\ pc = "search"
  /\ Top.at = "loop"
  /\ Top.i >= Len(global_trie_root[Top.node].children)
  /\ UNCHANGED << best_move, best_pts >>
  /\ ReturnFromTop
  /\ SearchFrame

\* The recursive call of the first branch has returned: the square is
\* removed from the move, the tile placed back in the rack
AfterTile ==
  /\ pc = "search"
  /\ Top.at = "tile"
  /\ stack' = Append(Callers,
                [ Top EXCEPT !.curr_move = pop_back(@),
                             !.rack = placed_back(@, TopChildIndex),
                             !.curr_square = Top.sqr,
                             !.i = @ + 1,
                             !.branches = @ + 1,
                             !.last = Top.at,
                             !.at = "loop" ])
  /\ UNCHANGED << best_move, best_pts, pc, anchor >>
  /\ SearchFrame

\* The recursive call of the blank branch has returned
AfterBlank ==
  /\ pc = "search"
  /\ Top.at = "blank"
  /\ stack' = Append(Callers,
                [ Top EXCEPT !.curr_move = pop_back(@),
                             !.rack = placed_back(@, 26),
                             !.curr_square = Top.sqr,
                             !.i = @ + 1,
                             !.branches = @ + 1,
                             !.last = Top.at,
                             !.at = "loop" ])
  /\ UNCHANGED << best_move, best_pts, pc, anchor >>
  /\ SearchFrame

SearchNext ==
  \/ AnchorTry
  \/ AnchorSkip
  \/ AcrossDone
  \/ ExtendOutside
  \/ ExtendEmpty
  \/ ExtendLetter
  \/ ExtendNoChild
  \/ AfterLetter
  \/ LoopTile
  \/ LoopBlank
  \/ LoopSkip
  \/ LoopEnd
  \/ AfterTile
  \/ AfterBlank

SearchSpec == SearchInit /\ [][SearchNext]_vars

\* extend_right is sequential code: as long as an activation is left, its
\* next statement is executed
SearchSpecFair == SearchSpec /\ WF_vars(SearchNext)

\* ------------------------------------------------------------------------
\* The rules of the game, stated on the letters of the board alone
\* ------------------------------------------------------------------------
Dirs == { "across", "down" }

\* The square at position k of a line: a row for across, a column for down
PosCell(d, line, k) == IF d = "across" THEN << line, k >> ELSE << k, line >>

\* The step along the line and the step perpendicular to it
AlongStep(d) == IF d = "across" THEN << 0, 1 >> ELSE << 1, 0 >>

PerpStep(d) == IF d = "across" THEN << 1, 0 >> ELSE << 0, 1 >>

Occupied(b, r, c) == r \in Rows /\ c \in Cols /\ b[r][c].letter # "."

Tiles(b) == { p \in Rows \X Cols : b[p[1]][p[2]].letter # "." }

Reverse(seq) == [ i \in 1..Len(seq) |-> seq[Len(seq) + 1 - i] ]

\* The letters of the tiles from (r, c) on, by steps of (dr, dc), up to the
\* first empty or out-of-bounds square, blanks read as their letter
RECURSIVE TilesFrom(_, _, _, _, _)
TilesFrom(b, r, c, dr, dc) ==
  IF Occupied(b, r, c)
  THEN << toupper(b[r][c].letter) >> \o TilesFrom(b, r + dr, c + dc, dr, dc)
  ELSE << >>

HasPerpNeighbour(b, d, r, c) ==
  LET st == PerpStep(d)
  IN Occupied(b, r - st[1], c - st[2]) \/ Occupied(b, r + st[1], c + st[2])

\* The perpendicular word a tile with letter L forms at (r, c)
PerpWord(b, d, r, c, L) ==
  LET st == PerpStep(d)
  IN Reverse(TilesFrom(b, r - st[1], c - st[2], -st[1], -st[2]))
     \o << toupper(L) >>
     \o TilesFrom(b, r + st[1], c + st[2], st[1], st[2])

\* The words that may be played as a primary word
PlayableWords(words) == { w \in Range(words) : Len(w) > 2 /\ all_uppercase(w) }

\* The elements of a set of integers in increasing order
RECURSIVE SortedSeq(_)
SortedSeq(S) ==
  IF S = {} THEN << >>
  ELSE LET m == CHOOSE x \in S : \A y \in S : x <= y
       IN << m >> \o SortedSeq(S \ { m })

\* The legal placements of word w on line `line` of direction d with its
\* first letter at position start, as moves (sequences of squares in
\* increasing order along the line); Blanks is the set of positions of the
\* word covered by a blank tile.
LegalAt(words, b, tiles, rk, w, d, line, start) ==
  LET n == Len(w)
      last == start + n - 1
      cell(i) == PosCell(d, line, start + i - 1)
      before == PosCell(d, line, start - 1)
      after == PosCell(d, line, last + 1)
      New == { i \in 1..n : ~Occupied(b, cell(i)[1], cell(i)[2]) }
      Touches ==
        IF tiles = {}
        THEN \E i \in 1..n : cell(i) = << mid_row, mid_col >>
        ELSE \/ New # 1..n
             \/ \E i \in New : HasPerpNeighbour(b, d, cell(i)[1], cell(i)[2])
      Feasible(Blanks) ==
        /\ Cardinality(Blanks) <= rk[26]
        /\ \A j \in 0..25 :
             Cardinality({ i \in New \ Blanks : AlphaIndex[w[i]] = j }) <= rk[j]
      MoveOf(Blanks) ==
        LET order == SortedSeq(New)
        IN [ k \in 1..Len(order) |->
               [ row |-> cell(order[k])[1],
                 col |-> cell(order[k])[2],
                 letter |-> IF order[k] \in Blanks THEN tolower(w[order[k]])
                            ELSE w[order[k]] ] ]
  IN
  IF /\ start >= 1
     /\ last <= (IF d = "across" THEN NUM_BOARD_COLS ELSE NUM_BOARD_ROWS)
     /\ ~Occupied(b, before[1], before[2])
     /\ ~Occupied(b, after[1], after[2])
     /\ \A i \in 1..n : Occupied(b, cell(i)[1], cell(i)[2])
                          => toupper(b[cell(i)[1]][cell(i)[2]].letter) = w[i]
     /\ New # {}
     /\ Touches
     /\ \A i \in New :
          HasPerpNeighbour(b, d, cell(i)[1], cell(i)[2])
            => InLexicon(words, PerpWord(b, d, cell(i)[1], cell(i)[2], w[i]))
  THEN { [ dir |-> d, move |-> MoveOf(Blanks) ] :
           Blanks \in { B \in SUBSET New : Feasible(B) } }
  ELSE {}

\* The lines on which a placement can touch a tile, or the center lines of
\* an empty board
CandidateLines(tiles, d) ==
  IF tiles = {} THEN { IF d = "across" THEN mid_row ELSE mid_col }
  ELSE { l \in 1..NUM_BOARD_ROWS :
           \E p \in tiles :
             LET q == IF d = "across" THEN p[1] ELSE p[2]
             IN l - 1 <= q /\ q <= l + 1 }

LegalPlacements(words, b, rk) ==
  LET tiles == Tiles(b)
      across_lines == CandidateLines(tiles, "across")
      down_lines == CandidateLines(tiles, "down")
  IN UNION { LegalAt(words, b, tiles, rk, x[1], x[2], x[3], x[4]) :
               x \in (PlayableWords(words) \X { "across" }
                        \X across_lines \X (1..NUM_BOARD_COLS))
                     \cup
                     (PlayableWords(words) \X { "down" }
                        \X down_lines \X (1..NUM_BOARD_ROWS)) }

\* The score of a placement, by the scorer of the program
PlacementPts(words, b, p) ==
  IF p.dir = "across" THEN calc_across_pts(b, p.move)
  ELSE calc_down_pts(words, b, p.move)

\* ------------------------------------------------------------------------
\* Properties
\* ------------------------------------------------------------------------
\* The state right after find_best_move has returned: board and rack are
\* the arguments of the call, best_move and best_pts its results
Returned == pc = "output"

\* C1: on a board holding at least one tile, the score returned by
\* find_best_move is at least the score of every legal single-line
\* placement that can be formed from the rack.
C1_BestMoveIsOptimal ==
  (Returned /\ is_occupied(board))
    => \A p \in LegalPlacements(global_words, board, rack) :
         best_pts >= PlacementPts(global_words, board, p)

\* The directions in which the squares of move m lie on one line
MoveDirs(m) ==
  { d \in Dirs : \A i \in 1..Len(m) :
      IF d = "across" THEN m[i].row = m[1].row ELSE m[i].col = m[1].col }

\* The letter the board holds at (r, c) once move m is placed, blanks read
\* as their letter; "." if the square stays empty or is out of bounds
LetterAfter(b, m, r, c) ==
  IF \E i \in 1..Len(m) : m[i].row = r /\ m[i].col = c
  THEN toupper(m[CHOOSE i \in 1..Len(m) : m[i].row = r /\ m[i].col = c].letter)
  ELSE IF Occupied(b, r, c) THEN toupper(b[r][c].letter)
  ELSE "."

\* The letters from (r, c) on, by steps of (dr, dc), once move m is placed
RECURSIVE LettersFrom(_, _, _, _, _, _)
LettersFrom(b, m, r, c, dr, dc) ==
  IF r \in Rows /\ c \in Cols /\ LetterAfter(b, m, r, c) # "."
  THEN << LetterAfter(b, m, r, c) >> \o LettersFrom(b, m, r + dr, c + dc, dr, dc)
  ELSE << >>

\* The letters of the primary word before the first tile of the move
PrimaryHead(b, m, d) ==
  LET st == AlongStep(d)
  IN Reverse(LettersFrom(b, m, m[1].row - st[1], m[1].col - st[2],
                         -st[1], -st[2]))

\* The primary word of move m in direction d: the tiles of the move merged
\* with the tiles of the board between and next to them
PrimaryWord(b, m, d) ==
  LET st == AlongStep(d)
  IN PrimaryHead(b, m, d)
     \o LettersFrom(b, m, m[1].row, m[1].col, st[1], st[2])

\* Every tile of the move lies in the primary word
InOneWord(b, m, d) ==
  LET st == AlongStep(d)
      n == Len(LettersFrom(b, m, m[1].row, m[1].col, st[1], st[2]))
  IN \A i \in 1..Len(m) :
       (m[i].row - m[1].row) + (m[i].col - m[1].col) \in 0..(n - 1)

WordLegal(words, b, m) ==
  \E d \in MoveDirs(m) :
    /\ InOneWord(b, m, d)
    /\ Len(PrimaryWord(b, m, d)) > 2
    /\ all_uppercase(PrimaryWord(b, m, d))
    /\ InLexicon(words, PrimaryWord(b, m, d))
    /\ \A i \in 1..Len(m) :
         HasPerpNeighbour(b, d, m[i].row, m[i].col)
           => InLexicon(words, PerpWord(b, d, m[i].row, m[i].col, m[i].letter))

\* C2: on a board holding at least one tile, every non-empty placement
\* find_best_move returns is word-legal: its primary word is a dictionary
\* word of more than 2 uppercase letters and every perpendicular word a
\* placed tile forms is in the dictionary.
C2_ReturnedMoveIsWordLegal ==
  (Returned /\ is_occupied(board) /\ best_move # << >>)
    => WordLegal(global_words, board, best_move)

\* A returned placement one tile of which forms a perpendicular word
C2_Witness ==
  /\ Returned
  /\ is_occupied(board)
  /\ best_move # << >>
  /\ \E d \in MoveDirs(best_move), i \in 1..Len(best_move) :
       /\ HasPerpNeighbour(board, d, best_move[i].row, best_move[i].col)
       /\ Len(PerpWord(board, d, best_move[i].row, best_move[i].col,
                       best_move[i].letter)) = 2
  /\ WordLegal(global_words, board, best_move)

\* No legal placement exists for the board and the rack
NoLegalPlacement == LegalPlacements(global_words, board, rack) = {}

\* C3: when no legal placement exists, find_best_move, called with an
\* empty best_move and best_pts = 0, returns an empty placement and 0
\* points, on an occupied board and on an empty one.
C3_NoLegalMoveGivesEmpty ==
  (Returned /\ NoLegalPlacement) => (best_move = << >> /\ best_pts = 0)

\* The board holds the word CAT only and the rack holds tiles, none of
\* which makes a legal placement
C3_Witness ==
  /\ Returned
  /\ Tiles(board) = { << 8, 7 >>, << 8, 8 >>, << 8, 9 >> }
  /\ TilesFrom(board, 8, 7, 0, 1) = << "C", "A", "T" >>
  /\ \E i \in 0..26 : rack[i] > 0
  /\ NoLegalPlacement
  /\ best_move = << >>
  /\ best_pts = 0

\* The results of the two searches find_best_move runs on an occupied board
AcrossMove == find_best_across_move(board, rack, global_trie_root)

DownMove == find_best_down_move(global_words, board, rack, global_trie_root)

AcrossPts == calc_across_pts(board, AcrossMove)

DownPts == calc_down_pts(global_words, board, DownMove)

\* C4 as claimed: on an occupied board, when the best across placement and
\* the best down placement have equal scores, find_best_move returns the
\* across placement; the down placement only when its score is higher.
C4_TiesFavorAcross ==
  (Returned /\ is_occupied(board))
    => /\ AcrossPts = DownPts => best_move = AcrossMove
       /\ (best_move = DownMove /\ DownMove # AcrossMove) => DownPts > AcrossPts

\* C4 as amended: on an occupied board, when the two scores are equal,
\* find_best_move returns the down placement; the across placement is
\* returned only when its score is strictly higher.
C4_TiesFavorDown ==
  (Returned /\ is_occupied(board))
    => /\ AcrossPts = DownPts => (best_move = DownMove /\ best_pts = DownPts)
       /\ (best_move = AcrossMove /\ AcrossMove # DownMove)
            => (AcrossPts > DownPts /\ best_pts = AcrossPts)
       /\ DownPts > AcrossPts => (best_move = DownMove /\ best_pts = DownPts)

\* Two different placements of equal score, the down one returned
C4_Witness ==
  /\ Returned
  /\ is_occupied(board)
  /\ AcrossMove # << >>
  /\ DownMove # << >>
  /\ AcrossMove # DownMove
  /\ AcrossPts = DownPts
  /\ best_move = DownMove

\* ------------------------------------------------------------------------
\* The scoring rules, stated on the board in its own orientation
\* ------------------------------------------------------------------------
\* The tiles from (r, c) on, as the board holds them
RECURSIVE RawTilesFrom(_, _, _, _, _)
RawTilesFrom(b, r, c, dr, dc) ==
  IF Occupied(b, r, c)
  THEN << b[r][c].letter >> \o RawTilesFrom(b, r + dr, c + dc, dr, dc)
  ELSE << >>

\* The value of a tile: a blank tile (lowercase) is worth nothing
PointValue(ch) == IF ch \in UpperSet THEN TilePoints[AlphaIndex[ch] + 1] ELSE 0

RECURSIVE SumSeq(_)
SumSeq(seq) == IF seq = << >> THEN 0 ELSE Head(seq) + SumSeq(Tail(seq))

RECURSIVE ProdSeq(_)
ProdSeq(seq) == IF seq = << >> THEN 1 ELSE Head(seq) * ProdSeq(Tail(seq))

TilesValue(tiles) == SumSeq([ i \in 1..Len(tiles) |-> PointValue(tiles[i]) ])

LetterFactor(b, r, c) ==
  IF b[r][c].type = "double_letter" THEN 2
  ELSE IF b[r][c].type = "triple_letter" THEN 3
  ELSE 1

WordFactor(b, r, c) ==
  IF b[r][c].type = "double_word" THEN 2
  ELSE IF b[r][c].type = "triple_word" THEN 3
  ELSE 1

\* The value of a newly placed tile after its letter bonus
NewTileValue(b, sq) == PointValue(sq.letter) * LetterFactor(b, sq.row, sq.col)

\* The tiles of the board inside the primary word of move m: left of it,
\* in its gaps and right of it
OldTilesInWord(b, m, d) ==
  LET st == AlongStep(d)
      n == Len(PrimaryWord(b, m, d))
      h == Len(PrimaryHead(b, m, d))
      r0 == m[1].row - h * st[1]
      c0 == m[1].col - h * st[2]
      old == { k \in 0..(n - 1) : Occupied(b, r0 + k * st[1], c0 + k * st[2]) }
      order == SortedSeq(old)
  IN [ i \in 1..Len(order) |->
         b[r0 + order[i] * st[1]][c0 + order[i] * st[2]].letter ]

PrimaryWordPts(b, m, d) ==
  ( SumSeq([ i \in 1..Len(m) |-> NewTileValue(b, m[i]) ])
    + TilesValue(OldTilesInWord(b, m, d)) )
  * ProdSeq([ i \in 1..Len(m) |-> WordFactor(b, m[i].row, m[i].col) ])

CrossWordPts(b, d, sq) ==
  LET st == PerpStep(d)
  IN IF HasPerpNeighbour(b, d, sq.row, sq.col)
     THEN ( TilesValue(RawTilesFrom(b, sq.row - st[1], sq.col - st[2],
                                    -st[1], -st[2]))
            + TilesValue(RawTilesFrom(b, sq.row + st[1], sq.col + st[2],
                                      st[1], st[2]))
            + NewTileValue(b, sq) )
          * WordFactor(b, sq.row, sq.col)
     ELSE 0

PlacementScore(b, m, d) ==
  PrimaryWordPts(b, m, d)
  + SumSeq([ i \in 1..Len(m) |-> CrossWordPts(b, d, m[i]) ])
  + (IF Len(m) = 7 THEN 50 ELSE 0)

\* The placements the scorer is examined on: the legal placements of the
\* rack on the board and the returned one, each with its direction
ScoredPlacements ==
  LegalPlacements(global_words, board, rack)
  \cup { [ dir |-> d, move |-> best_move ] :
           d \in IF best_move = << >> THEN {} ELSE MoveDirs(best_move) }

\* The board and the move calc_across_pts is called with for a placement
ScorerBoard(d) ==
  IF d = "across" THEN board ELSE invert_board(global_words, board)

ScorerMove(p) == IF p.dir = "across" THEN p.move ELSE invert_move(p.move)

\* ------------------------------------------------------------------------
\* C5: on a board without tiles a non-empty result lies on row 8, places at
\* least two tiles and covers the center square (8, 8)
\* ------------------------------------------------------------------------
C5_FirstMoveCoversCenter ==
  (Returned /\ ~is_occupied(board) /\ best_move # << >>)
    => /\ \A i \in 1..Len(best_move) : best_move[i].row = mid_row
       /\ Len(best_move) >= 2
       /\ \E i \in 1..Len(best_move) : best_move[i].col = mid_col

\* A first move of three tiles was returned on the layout whose triple
\* word square (8, 5) lies left of the center
C5_Witness ==
  /\ Returned
  /\ ~is_occupied(board)
  /\ board[mid_row][5].type = "triple_word"
  /\ Len(best_move) = 3
  /\ \E i \in 1..3 : best_move[i].col = mid_col

\* ------------------------------------------------------------------------
\* C6: with the double word center as the only bonus square, no tile on
\* the board and the rack C, E, D, A, R, S, the result is CEDARS on six
\* consecutive squares of row 8 covering (8, 8), worth twice the sum of
\* the six tile values, without the 50 point bonus
\* ------------------------------------------------------------------------
CedarsCase ==
  /\ Returned
  /\ ~is_occupied(board)
  /\ \A r \in Rows, c \in Cols :
       board[r][c].type = (IF r = 8 /\ c = 8 THEN "double_word" ELSE "regular")
  /\ rack = fill_rack(<< "C", "E", "D", "A", "R", "S" >>)

C6_CedarsOnCenterRow ==
  CedarsCase
    => /\ Len(best_move) = 6
       /\ \A i \in 1..6 : best_move[i].row = 8
       /\ \A i \in 1..5 : best_move[i + 1].col = best_move[i].col + 1
       /\ \E i \in 1..6 : best_move[i].col = 8
       /\ [ i \in 1..6 |-> best_move[i].letter ]
            = << "C", "E", "D", "A", "R", "S" >>
       /\ best_pts = 2 * TilesValue(<< "C", "E", "D", "A", "R", "S" >>)
       /\ best_pts = 18

\* ------------------------------------------------------------------------
\* C7: the primary word score is the sum of the new tiles' values after
\* their letter bonuses plus the plain values of the board's tiles left
\* of, between and right of them, times 2 per double word and 3 per
\* triple word square under a new tile
\* ------------------------------------------------------------------------
C7_PrimaryWordScore ==
  Returned
    => \A p \in ScoredPlacements :
         across_row_pts(ScorerBoard(p.dir), ScorerMove(p))
           = PrimaryWordPts(board, p.move, p.dir)

\* The returned move covers a double word and a triple word square and its
\* word holds a tile of the board lying on a bonus square or beside one
C7_Witness ==
  /\ Returned
  /\ best_move # << >>
  /\ \E i, j \in 1..Len(best_move) :
       /\ board[best_move[i].row][best_move[i].col].type = "double_word"
       /\ board[best_move[j].row][best_move[j].col].type = "triple_word"
  /\ \E d \in MoveDirs(best_move) :
       /\ OldTilesInWord(board, best_move, d) # << >>
       /\ best_pts = 6 * ( SumSeq([ i \in 1..Len(best_move) |->
                                    NewTileValue(board, best_move[i]) ])
                           + TilesValue(OldTilesInWord(board, best_move, d)) )

\* ------------------------------------------------------------------------
\* C8: the score is the primary word score plus the cross word subtotals
\* of the new tiles plus 50 exactly when 7 tiles are placed; a move
\* without tiles scores 0
\* ------------------------------------------------------------------------
C8_TotalScore ==
  Returned
    => /\ \A p \in ScoredPlacements :
            calc_across_pts(ScorerBoard(p.dir), ScorerMove(p))
              = PlacementScore(board, p.move, p.dir)
       /\ calc_across_pts(board, << >>) = 0
       /\ calc_down_pts(global_words, board, << >>) = 0
       /\ best_move = << >> => best_pts = 0
       /\ best_move # << >>
            => \E d \in MoveDirs(best_move) :
                 best_pts = PlacementScore(board, best_move, d)

\* A move of 7 tiles was returned with the bonus in its score
C8_Witness ==
  /\ Returned
  /\ Len(best_move) = 7
  /\ best_pts = PrimaryWordPts(board, best_move, "across") + 50

\* ------------------------------------------------------------------------
\* C9: a new tile with a tile directly above or below scores the tiles
\* above and below plus its own value after the letter bonus, times the
\* word bonus of its square; without such a neighbour it scores no cross
\* word points, whatever its square
\* ------------------------------------------------------------------------
C9_CrossWordSubtotal ==
  Returned
    => \A p \in ScoredPlacements : \A i \in 1..Len(p.move) :
         col_cross_pts_of(ScorerBoard(p.dir), ScorerMove(p)[i])
           = CrossWordPts(board, p.dir, p.move[i])

\* The returned move has a tile on a word bonus square forming a cross
\* word, and the score holds that cross word doubled or tripled
C9_Witness ==
  /\ Returned
  /\ best_move # << >>
  /\ \E d \in MoveDirs(best_move) : \E i \in 1..Len(best_move) :
       /\ HasPerpNeighbour(board, d, best_move[i].row, best_move[i].col)
       /\ WordFactor(board, best_move[i].row, best_move[i].col) > 1
       /\ CrossWordPts(board, d, best_move[i]) > 0
       /\ best_pts >= PrimaryWordPts(board, best_move, d)
                      + CrossWordPts(board, d, best_move[i])

\* ------------------------------------------------------------------------
\* C10: a blank tile, new or on the board, scores 0 also on a letter
\* bonus square, and counts as its uppercase letter in the words of the
\* trie walk and of the cross checks
\* ------------------------------------------------------------------------
HasBlankAboveOrBelow(b, r, c) ==
  \/ (Occupied(b, r - 1, c) /\ b[r - 1][c].letter \in LowerSet)
  \/ (Occupied(b, r + 1, c) /\ b[r + 1][c].letter \in LowerSet)

C10_BlanksScoreZero ==
  Returned
    => /\ \A p \in ScoredPlacements : \A i \in 1..Len(p.move) :
            p.move[i].letter \in LowerSet
              => letter_pts_of(ScorerBoard(p.dir), ScorerMove(p)[i]) = 0
       /\ \A r \in Rows, c \in Cols :
            board[r][c].letter \in LowerSet
              => /\ run_pts(board, r, c, 0, 1)
                      = TilesValue(RawTilesFrom(board, r, c + 1, 0, 1))
                 /\ run_pts(board, r, c, 0, -1)
                      = TilesValue(RawTilesFrom(board, r, c - 1, 0, -1))
                 /\ run_pts(board, r, c, 1, 0)
                      = TilesValue(RawTilesFrom(board, r + 1, c, 1, 0))
                 /\ run_pts(board, r, c, -1, 0)
                      = TilesValue(RawTilesFrom(board, r - 1, c, -1, 0))
       /\ \A r \in Rows, c \in Cols :
            (~Occupied(board, r, c) /\ HasBlankAboveOrBelow(board, r, c))
              => \A k \in 1..26 :
                   board[r][c].down_cross_check[k - 1]
                     = InLexicon(global_words,
                                 PerpWord(board, "across", r, c, UpperChars[k]))
       /\ (best_move # << >>
           /\ \E i \in 1..Len(best_move) : best_move[i].letter \in LowerSet)
            => WordLegal(global_words, board, best_move)
       /\ \A p \in ScoredPlacements :
            ( \/ \E i \in 1..Len(p.move) : p.move[i].letter \in LowerSet
              \/ \E k \in 1..Len(OldTilesInWord(board, p.move, p.dir)) :
                   OldTilesInWord(board, p.move, p.dir)[k] \in LowerSet )
              => calc_across_pts(ScorerBoard(p.dir), ScorerMove(p))
                   = PlacementScore(board, p.move, p.dir)

\* The returned move puts a blank tile on a letter bonus square and its
\* word is in the lexicon
C10_Witness ==
  /\ Returned
  /\ best_move # << >>
  /\ \E i \in 1..Len(best_move) :
       /\ best_move[i].letter \in LowerSet
       /\ LetterFactor(board, best_move[i].row, best_move[i].col) > 1
  /\ \E d \in MoveDirs(best_move) :
       InLexicon(global_words, PrimaryWord(board, best_move, d))

\* ------------------------------------------------------------------------
\* C11: for the board find_best_move is called with, inverting it twice
\* gives back the bonus type, the occupant and the row and col fields of
\* every in-bounds cell, and the inverted board holds at (row, col) the
\* type and occupant the board has at (col, row).
\* ------------------------------------------------------------------------
SameCell(s, t) ==
  /\ s.type = t.type
  /\ s.letter = t.letter
  /\ s.row = t.row
  /\ s.col = t.col

InvertedOnce(b, once) ==
  \A r \in Rows, c \in Cols :
    /\ once[r][c].type = b[c][r].type
    /\ once[r][c].letter = b[c][r].letter

InvertedTwice(b, twice) ==
  \A r \in Rows, c \in Cols : SameCell(twice[r][c], b[r][c])

InvertedBoards(b, once) ==
  /\ InvertedOnce(b, once)
  /\ InvertedTwice(b, invert_board(global_words, once))

C11_InvertBoardRoundTrip ==
  Returned => InvertedBoards(board, invert_board(global_words, board))

\* A board that differs from its transpose in an occupant and in a bonus
\* type
C11_Witness ==
  /\ Returned
  /\ \E r \in Rows, c \in Cols :
       /\ board[r][c].letter # board[c][r].letter
       /\ invert_board(global_words, board)[c][r].letter = board[r][c].letter
  /\ \E r \in Rows, c \in Cols : board[r][c].type # board[c][r].type

\* ------------------------------------------------------------------------
\* C12: a string of uppercase letters leads from the root of the trie to a
\* terminal node exactly when it is a lexicon entry made of A-Z only and
\* longer than two letters; entries of length 1 or 2 and entries with
\* other characters are not accepted.
\* ------------------------------------------------------------------------
\* Following str from node through letter_indexes and children, as the
\* search does, ends on a terminal node
RECURSIVE TrieWalk(_, _, _, _)
TrieWalk(trie, node, str, i) ==
  IF i > Len(str) THEN trie[node].is_terminal_node
  ELSE LET child_index == trie[node].letter_indexes[AlphaIndex[str[i]]]
       IN IF child_index = -1 THEN FALSE
          ELSE TrieWalk(trie, trie[node].children[child_index + 1], str, i + 1)

Accepted(trie, str) == TrieWalk(trie, << >>, str, 1)

\* Every string that names a node, every such string with one more letter
\* (a string outside this set leaves the trie at one of these), and every
\* uppercase lexicon entry
TrieTestStrings(trie, words) ==
  (DOMAIN trie)
    \cup { Append(n, UpperChars[k]) : n \in DOMAIN trie, k \in 1..26 }
    \cup { w \in Range(words) : all_uppercase(w) }

\* The node a string of any characters names is a terminal node
SpelledInTrie(trie, str) ==
  str \in DOMAIN trie /\ trie[str].is_terminal_node

\* The trie create_word_trie builds from the word list, and what it accepts
WordTrie == create_word_trie(WordList)

WordTrieAcceptsLexicon ==
  /\ \A s \in TrieTestStrings(WordTrie, WordList) :
       Accepted(WordTrie, s) <=> (InLexicon(WordList, s) /\ Len(s) > 2)
  /\ \A w \in Range(WordList) :
       (Len(w) <= 2 \/ ~all_uppercase(w)) => ~SpelledInTrie(WordTrie, w)
  /\ \A n \in DOMAIN WordTrie : \A i \in 1..Len(n) : n[i] \in UpperSet

C12_TrieAcceptsLexicon ==
  /\ global_words = WordList
  /\ global_trie_root = WordTrie
  /\ WordTrieAcceptsLexicon

\* The lexicon holds a word the trie accepts, a two letter word and an
\* entry with a lowercase letter
C12_Witness ==
  /\ \E w \in Range(global_words) : Accepted(global_trie_root, w)
  /\ \E w \in Range(global_words) : Len(w) = 2 /\ all_uppercase(w)
  /\ \E w \in Range(global_words) : Len(w) > 2 /\ ~all_uppercase(w)

\* ------------------------------------------------------------------------
\* C13: fill_rack reads only the first seven characters of its input, adds
\* one tile for each uppercase letter and one blank for each '*' among
\* them and ignores every other character; the rack has 27 counts, none
\* negative, whose sum is at most seven and equals the number of uppercase
\* letters and '*' among the first seven characters.
\* ------------------------------------------------------------------------
\* The positions of str that fill_rack may read
FirstSeven(str) ==
  { k \in 1..Len(str) : k <= NUM_RACK_TILES }

\* The tile kinds: the letter of index 0..25, '*' for index 26
TileChar(i) == IF i < 26 THEN UpperChars[i + 1] ELSE "*"

RackTotal(rk) == SumSeq([ i \in 1..27 |-> rk[i - 1] ])

C14_SearchLeavesInputs ==
  [][ (pc = "find" /\ pc' = "output")
        => /\ board' = update_min_across_word_length(
                          update_down_cross_checks(global_words, board))
           /\ rack' = rack
           /\ rack_str' = rack_str
           /\ global_trie_root' = global_trie_root
           /\ global_words' = global_words ]_vars

\* find_best_move has returned a first move on a board without tiles: its
\* own copy of the board has other minimum lengths on the center row than
\* the caller's board
C14_Witness ==
  /\ Returned
  /\ ~is_occupied(board)
  /\ best_move # << >>
  /\ find_best_move_board(board) # board

\* ------------------------------------------------------------------------
\* C15: after update_down_cross_checks, on any board the console commands
\* lead to, every empty in-bounds square with no tile directly above and
\* none directly below has all 26 letters legal.
\* ------------------------------------------------------------------------
AllLettersLegal(sqr) == \A k \in 0..25 : sqr.down_cross_check[k]

C15_NoFragmentAllLegal ==
  Returned
    => \A r \in Rows, c \in Cols :
         (~Occupied(board, r, c) /\ ~HasPerpNeighbour(board, "across", r, c))
           => AllLettersLegal(board[r][c])

\* ------------------------------------------------------------------------
\* C16: after update_down_cross_checks, for every empty in-bounds square
\* with a tile directly above or below, a letter is legal exactly when the
\* tiles above, the letter and the tiles below, read top to bottom up to
\* the first empty or out-of-bounds square and in uppercase, are an entry
\* of the lexicon, the words of two letters included.
\* ------------------------------------------------------------------------
CrossCheckIsMembership(words, b, r, c) ==
  \A k \in 1..26 :
    b[r][c].down_cross_check[k - 1]
      = InLexicon(words, PerpWord(b, "across", r, c, UpperChars[k]))

C16_CrossCheckIsMembership ==
  Returned
    => \A r \in Rows, c \in Cols :
         (~Occupied(board, r, c) /\ HasPerpNeighbour(board, "across", r, c))
           => CrossCheckIsMembership(global_words, board, r, c)

\* A square below a tile where a letter is legal through a word of two
\* letters, and a square with tiles above and below it
C16_Witness ==
  /\ Returned
  /\ \E r \in Rows, c \in Cols :
       /\ ~Occupied(board, r, c)
       /\ Occupied(board, r - 1, c)
       /\ \E k \in 1..26 :
            /\ board[r][c].down_cross_check[k - 1]
            /\ Len(PerpWord(board, "across", r, c, UpperChars[k])) = 2
  /\ \E r \in Rows, c \in Cols :
       /\ ~Occupied(board, r, c)
       /\ Occupied(board, r - 1, c)
       /\ Occupied(board, r + 1, c)

\* ------------------------------------------------------------------------
\* C17: on the board invert_board returns, the cross check set of each
\* empty square follows from the transposed tiles alone: all 26 letters
\* where no tile lies directly above or below in the transposed board,
\* membership of the word in the lexicon otherwise.
\* ------------------------------------------------------------------------
CrossChecksOfTiles(words, b) ==
  \A r \in Rows, c \in Cols :
    ~Occupied(b, r, c)
      => IF HasPerpNeighbour(b, "across", r, c)
         THEN CrossCheckIsMembership(words, b, r, c)
         ELSE AllLettersLegal(b[r][c])

C17_InvertedCrossChecks ==
  Returned => CrossChecksOfTiles(global_words, invert_board(global_words, board))

\* ------------------------------------------------------------------------
\* C18, as stated: after update_min_across_word_length every in-bounds
\* square immediately left of a tile (the square to its right holds a
\* letter) has the minimum length -1.
\* ------------------------------------------------------------------------
C18_LeftOfTileNotAnchor ==
  Returned
    => \A r \in Rows, c \in Cols :
         Occupied(board, r, c + 1) => board[r][c].min_across_word_length = -1

\* A result of the search that no search returns
NoMoveYet == [ best_move |-> << >>, best_pts |-> -1 ]

\* ------------------------------------------------------------------------
\* C18, amended: after update_min_across_word_length every in-bounds
\* square immediately right of a tile (the square to its left holds a
\* letter) has the minimum length -1, and the across search starts no word
\* on it.
\* ------------------------------------------------------------------------
C18_RightOfTileNotAnchor ==
  Returned
    => \A r \in Rows, c \in Cols :
         Occupied(board, r, c - 1)
           => /\ board[r][c].min_across_word_length = -1
              /\ try_square(board, rack, global_trie_root, board[r][c],
                            NoMoveYet) = NoMoveYet

\* An empty square right of a tile with minimum length -1 and an empty
\* square left of a tile whose minimum length is 1
C18_Witness ==
  /\ Returned
  /\ \E r \in Rows, c \in Cols :
       /\ ~Occupied(board, r, c)
       /\ Occupied(board, r, c - 1)
       /\ board[r][c].min_across_word_length = -1
  /\ \E r \in Rows, c \in Cols :
       /\ ~Occupied(board, r, c)
       /\ Occupied(board, r, c + 1)
       /\ board[r][c].min_across_word_length = 1

\* ------------------------------------------------------------------------
\* C19: on a board with at least one tile, every non-empty move that
\* find_best_move returns has a newly placed square next to (above, below,
\* left or right of) a square that held a tile before the move.
\* ------------------------------------------------------------------------
NextToTile(b, r, c) ==
  \/ Occupied(b, r - 1, c)
  \/ Occupied(b, r + 1, c)
  \/ Occupied(b, r, c - 1)
  \/ Occupied(b, r, c + 1)

C19_MoveTouchesTile ==
  (Returned /\ is_occupied(board) /\ best_move # << >>)
    => \E i \in 1..Len(best_move) :
         NextToTile(board, best_move[i].row, best_move[i].col)

\* A returned move on a board with tiles whose first new square has no
\* tile next to it while a later one has
C19_Witness ==
  /\ Returned
  /\ is_occupied(board)
  /\ best_move # << >>
  /\ ~NextToTile(board, best_move[1].row, best_move[1].col)
  /\ \E i \in 1..Len(best_move) :
       NextToTile(board, best_move[i].row, best_move[i].col)

\* ------------------------------------------------------------------------
\* C20: at every point of a search started from rack, in every activation
\* of extend_right and for each of the 26 letters and the blank, the count
\* in the activation's rack plus the number of tiles of that kind in its
\* partial move (an uppercase letter is a tile of that letter, a lowercase
\* letter a blank) is the count in the starting rack and no count is
\* negative; and once a recursive call has returned and its branch is undone,
\* rack and partial move are what they were before the tile was taken.
\* ------------------------------------------------------------------------
TilesOfKind(move, k) ==
  Cardinality({ j \in 1..Len(move) :
                  IF k < 26 THEN move[j].letter = UpperChars[k + 1]
                  ELSE move[j].letter \in LowerSet })

RackConserved(activation) ==
  \A k \in 0..26 :
    /\ activation.rack[k] >= 0
    /\ activation.rack[k] + TilesOfKind(activation.curr_move, k) = rack[k]

BranchUndone(activation) ==
  activation.at \in { "entry", "loop" }
    => /\ activation.rack = activation.rack_before
       /\ activation.curr_move = activation.move_before

C20_RackConserved ==
  \A f \in 1..Len(stack) :
    RackConserved(stack[f]) /\ BranchUndone(stack[f])

\* An activation that holds a partial move with a blank is back at the
\* head of its loop after a recursive call has returned
C20_Witness ==
  \E f \in 1..Len(stack) :
    /\ stack[f].at = "loop"
    /\ stack[f].branches > 0
    /\ \E j \in 1..Len(stack[f].curr_move) :
         stack[f].curr_move[j].letter \in LowerSet
    /\ stack[f].rack # rack

\* ------------------------------------------------------------------------
\* C21: every move find_best_move returns has its squares in one row
\* (across) or one column (down), listed in strictly increasing column
\* (row) order, each square in bounds and empty on the board before the
\* move, and every square between two consecutive entries holds a tile on
\* the board before the move.
\* ------------------------------------------------------------------------
\* The coordinate of square sq along direction d, and across it
Along(sq, d) == IF d = "across" THEN sq.col ELSE sq.row

Athwart(sq, d) == IF d = "across" THEN sq.row ELSE sq.col

ShapedAlong(b, m, d) ==
  /\ \A i \in 1..Len(m) :
       /\ m[i].row \in Rows
       /\ m[i].col \in Cols
       /\ ~Occupied(b, m[i].row, m[i].col)
       /\ Athwart(m[i], d) = Athwart(m[1], d)
  /\ \A i \in 1..(Len(m) - 1) :
       /\ Along(m[i], d) < Along(m[i + 1], d)
       /\ \A k \in (Along(m[i], d) + 1)..(Along(m[i + 1], d) - 1) :
            LET pos == PosCell(d, Athwart(m[1], d), k)
            IN Occupied(b, pos[1], pos[2])

C21_PlacementShape ==
  (Returned /\ best_move # << >>)
    => \E d \in Dirs : ShapedAlong(board, best_move, d)

\* A returned move with a tile of the board between two of its squares
C21_Witness ==
  /\ Returned
  /\ Len(best_move) > 1
  /\ \E d \in Dirs :
       /\ ShapedAlong(board, best_move, d)
       /\ \E i \in 1..(Len(best_move) - 1) :
            Along(best_move[i + 1], d) > Along(best_move[i], d) + 1

\* ------------------------------------------------------------------------
\* C22: every call of extend_right terminates: each recursive call is made
\* on the square one column to the right in the same row, so that a call
\* from an anchor in column c has at most 16 - c recursive calls below it
\* when the border square ends the branch, and the call returns.
\* ------------------------------------------------------------------------
SearchDepthBounded ==
  \A f \in 1..Len(stack) :
    /\ stack[f].sqr.row = stack[1].sqr.row
    /\ stack[f].sqr.col = stack[1].sqr.col + (f - 1)
    /\ stack[f].sqr.col <= NUM_BOARD_COLS + 1
    /\ Len(stack) - 1 <= (NUM_BOARD_COLS + 1) - stack[1].sqr.col

C22_SearchTerminates ==
  [] SearchDepthBounded /\ <> (pc = "searched")

\* The innermost of 16 - c recursive calls stands on the border square
C22_Witness ==
  /\ pc = "search"
  /\ Len(stack) > 1
  /\ Len(stack) - 1 = (NUM_BOARD_COLS + 1) - stack[1].sqr.col
  /\ TopSquare.type = "outside"

\* ------------------------------------------------------------------------
\* The candidates of the across search in the order the claim gives:
\* anchors by row from the top, then by column from the left, at an
\* anchor a word before its extensions, and at each empty square the
\* letters in a given order.  A candidate is a word of the lexicon of more
\* than two letters that starts on the anchor, whose new tiles are in the
\* rack (a blank standing for a letter the rack has no tile of) and in the
\* cross check sets of their squares, that has at least the minimum length
\* of the anchor in new tiles and an empty in-bounds square after it.
\* ------------------------------------------------------------------------
\* The playable words that go on after prefix
Continuations(words, prefix) ==
  { k \in 1..Len(words) :
      /\ words[k] \in PlayableWords(words)
      /\ Len(words[k]) > Len(prefix)
      /\ SubSeq(words[k], 1, Len(prefix)) = prefix }

\* The letters that may follow prefix, in the order in which the lexicon
\* first brings them
LettersByLexicon(words, prefix) ==
  LET firsts == { k \in Continuations(words, prefix) :
                    \A j \in Continuations(words, prefix) :
                      words[j][Len(prefix) + 1] = words[k][Len(prefix) + 1]
                        => k <= j }
      order == SortedSeq(firsts)
  IN [ i \in 1..Len(order) |-> words[order[i]][Len(prefix) + 1] ]

\* The same letters in ascending alphabetical order
LettersByAlphabet(words, prefix) ==
  LET order == SortedSeq({ AlphaIndex[words[k][Len(prefix) + 1]] :
                             k \in Continuations(words, prefix) })
  IN [ i \in 1..Len(order) |-> UpperChars[order[i] + 1] ]

LettersInOrder(by, words, prefix) ==
  IF by = "lexicon" THEN LettersByLexicon(words, prefix)
  ELSE LettersByAlphabet(words, prefix)

RECURSIVE CandidatesFrom(_, _, _, _, _, _, _, _, _)
RECURSIVE CandidatesWith(_, _, _, _, _, _, _, _, _, _, _)
CandidatesFrom(by, words, b, rk, prefix, r, c, min_length, move) ==
  IF b[r][c].type = "outside" THEN << >>
  ELSE IF b[r][c].letter = "."
  THEN (IF prefix \in PlayableWords(words) /\ Len(move) >= min_length
        THEN << move >> ELSE << >>)
       \o CandidatesWith(by, words, b, rk, prefix, r, c, min_length, move,
                         LettersInOrder(by, words, prefix), 1)
  ELSE IF Continuations(words, Append(prefix, toupper(b[r][c].letter))) # {}
          \/ Append(prefix, toupper(b[r][c].letter)) \in PlayableWords(words)
  THEN CandidatesFrom(by, words, b, rk,
                      Append(prefix, toupper(b[r][c].letter)),
                      r, c + 1, min_length, move)
  ELSE << >>

\* The candidates with a new tile on the empty square (r, c), for the
\* letters from the i-th on
CandidatesWith(by, words, b, rk, prefix, r, c, min_length, move, letters, i) ==
  IF i > Len(letters) THEN << >>
  ELSE
    LET k == AlphaIndex[letters[i]]
        tile == IF rk[k] > 0 THEN k ELSE 26
        placed == IF rk[k] > 0 THEN letters[i] ELSE tolower(letters[i])
    IN (IF rk[tile] > 0 /\ b[r][c].down_cross_check[k]
        THEN CandidatesFrom(by, words, b, [ rk EXCEPT ![tile] = @ - 1 ],
                            Append(prefix, letters[i]), r, c + 1, min_length,
                            Append(move, [ row |-> r, col |-> c,
                                           letter |-> placed ]))
        ELSE << >>)
       \o CandidatesWith(by, words, b, rk, prefix, r, c, min_length, move,
                         letters, i + 1)

\* The candidates of the anchors of row r from column c on
RECURSIVE CandidatesOfRow(_, _, _, _, _, _)
CandidatesOfRow(by, words, b, rk, r, c) ==
  IF c > NUM_BOARD_COLS THEN << >>
  ELSE
    LET min_length == b[r][c].min_across_word_length
    IN (IF min_length # -1 /\ min_length <= NUM_RACK_TILES
        THEN CandidatesFrom(by, words, b, rk, << >>, r, c, min_length, << >>)
        ELSE << >>)
       \o CandidatesOfRow(by, words, b, rk, r, c + 1)

\* The candidates of the anchors of the rows from row r on
RECURSIVE CandidatesOfAnchors(_, _, _, _, _)
CandidatesOfAnchors(by, words, b, rk, r) ==
  IF r > NUM_BOARD_ROWS THEN << >>
  ELSE CandidatesOfRow(by, words, b, rk, r, 1)
       \o CandidatesOfAnchors(by, words, b, rk, r + 1)

\* The first of the candidates of the highest score, the empty move if no
\* candidate scores a point
FirstOfBest(b, candidates) ==
  LET pts == [ i \in 1..Len(candidates) |-> calc_across_pts(b, candidates[i]) ]
      top == { i \in 1..Len(candidates) :
                 pts[i] > 0 /\ \A j \in 1..Len(candidates) : pts[j] <= pts[i] }
  IN IF top = {} THEN << >>
     ELSE candidates[CHOOSE i \in top : \A j \in top : i <= j]

\* Two different candidates share the highest score
TopScoreShared(b, candidates) ==
  LET pts == [ i \in 1..Len(candidates) |-> calc_across_pts(b, candidates[i]) ]
  IN \E i, j \in 1..Len(candidates) :
       /\ i < j
       /\ candidates[i] # candidates[j]
       /\ pts[i] = pts[j]
       /\ pts[i] > 0
       /\ \A k \in 1..Len(candidates) : pts[k] <= pts[i]

\* best_move and best_pts change only to a move of more points
OnlyStrictlyBetter ==
  (best_move' # best_move \/ best_pts' # best_pts) => best_pts' > best_pts

\* ------------------------------------------------------------------------
\* C23, as stated: within one orientation a candidate replaces the recorded
\* best only when its score is strictly greater, and of the candidates of
\* the highest score the search returns the first in the order: anchors by
\* row, then by column, the letters at each empty square in ascending
\* alphabetical order.
\* ------------------------------------------------------------------------
C23_AlphabeticalOrder ==
  pc = "searched"
    => best_move = FirstOfBest(board,
                     CandidatesOfAnchors("alphabet", global_words, board,
                                         rack, 1))

\* ------------------------------------------------------------------------
\* C23, amended: within one orientation a candidate replaces the recorded
\* best only when its score is strictly greater, and of the candidates of
\* the highest score the search returns the first in the order: anchors by
\* row, then by column, the letters at each empty square in the order in
\* which the iteration over the lexicon first brought them under the
\* letters before them.
\* ------------------------------------------------------------------------
C23_LexiconOrder ==
  /\ [][ OnlyStrictlyBetter ]_vars
  /\ [] (pc = "searched"
           => best_move = FirstOfBest(board,
                            CandidatesOfAnchors("lexicon", global_words,
                                                board, rack, 1)))

\* The search is over and two candidates share the highest score
C23_Witness ==
  /\ pc = "searched"
  /\ best_move # << >>
  /\ TopScoreShared(board,
                    CandidatesOfAnchors("lexicon", global_words, board,
                                        rack, 1))

\* ------------------------------------------------------------------------
\* C24: at an empty square, for a letter with a child in the trie that the
\* cross check of the square allows, when the rack holds both a tile of
\* the letter and a blank, extend_right explores the branch of the tile
\* and afterwards the branch of the blank as well.  An activation that
\* goes on to the next child right after the branch of the tile has
\* therefore no blank in its rack.
\* ------------------------------------------------------------------------
C24_BlankAlsoExplored ==
  \A f \in 1..Len(stack) :
    (stack[f].at = "loop" /\ stack[f].last = "tile")
      => stack[f].rack[26] = 0

\* The column of the last letter of the word of row r that holds the
\* square of column c
RECURSIVE LastColumnOfWord(_, _, _)
LastColumnOfWord(b, r, c) ==
  IF b[r][c + 1].type # "outside" /\ b[r][c + 1].letter # "."
  THEN LastColumnOfWord(b, r, c + 1)
  ELSE c

\* The activation on top stands on an empty square of the board
OnEmptySquare ==
  /\ stack # << >>
  /\ Top.at = "entry"
  /\ TopSquare.type # "outside"
  /\ TopSquare.letter = "."

\* best_move and best_pts change only while extend_right stands on an
\* empty square of the board, and the new best move ends on the square
\* before it
RecordedOnEmptySquare ==
  (best_move' # best_move \/ best_pts' # best_pts)
    => /\ OnEmptySquare
       /\ best_move' = Top.curr_move
       /\ best_move' # << >>
       /\ LastColumnOfWord(board, Top.sqr.row,
                           best_move'[Len(best_move')].col) = Top.sqr.col - 1

====
